---- MODULE Spec2Model ----
(***************************************************************************)
(* Batch transcription scripts: transru-fp16-del-txt-srt.py (text and      *)
(* subtitle output) and transcribefp16ruundedelete.py (text output only).  *)
(*                                                                         *)
(* Strings are sequences of one-character strings.  A Python float in      *)
(* [0, 2^31) is a record [int, frac]: its integer part and the bits of its *)
(* binary fraction, at most Precision significant bits in all.             *)
(***************************************************************************)
EXTENDS Integers, Sequences, FiniteSets, TLC

VARIABLES
    script,     \* which script runs: "txt_srt" or "txt"
    fs,         \* the file system: path -> content, for the files present
    dirs,       \* the directories present under the output folder
    tree,       \* the files os.walk found in the input tree
    pending,    \* the files the walk has not handed to the loop body yet
    pc,         \* position of the run
    cur,        \* the file of the job in progress
    result,     \* the model's result of the job in progress
    calls,      \* path -> what model.transcribe did on each call with it
    reports,    \* the messages printed so far, in order
    seconds,    \* argument of format_timestamp
    stamp       \* value returned by format_timestamp

vars == <<script, fs, dirs, tree, pending, pc, cur, result, calls, reports,
          seconds, stamp>>

(***************************************************************************)
(* Bounds of the model.                                                    *)
(***************************************************************************)
MaxFiles == 3       \* files in the input tree
MaxSegs == 2        \* segments of a result given to save_srt_file
MaxChars == 4       \* characters of one segment's text
MaxMillis == 999    \* decimal milliseconds of the format_timestamp inputs

(***************************************************************************)
(* Python floats (IEEE 754 binary64, round to nearest, ties to even).      *)
(***************************************************************************)
Precision == 53

RECURSIVE BitLen(_)
BitLen(n) == IF n = 0 THEN 0 ELSE 1 + BitLen(n \div 2)

Max(S) == CHOOSE x \in S : \A y \in S : y <= x

Min(S) == CHOOSE x \in S : \A y \in S : x <= y

Ones(bits) == {i \in 1..Len(bits) : bits[i] = 1}

LeadingZeros(bits) == IF Ones(bits) = {} THEN Len(bits) ELSE Min(Ones(bits)) - 1

StripZeros(bits) == IF Ones(bits) = {} THEN <<>> ELSE SubSeq(bits, 1, Max(Ones(bits)))

\* x + 2^-Len(x.frac): one unit in the last place of the fraction bits
AddUlp(x) ==
    LET zeros == {i \in 1..Len(x.frac) : x.frac[i] = 0} IN
    IF zeros = {} THEN [int |-> x.int + 1, frac |-> [i \in 1..Len(x.frac) |-> 0]]
    ELSE [int  |-> x.int,
          frac |-> [i \in 1..Len(x.frac) |->
                        IF i < Max(zeros) THEN x.frac[i]
                        ELSE IF i = Max(zeros) THEN 1 ELSE 0]]

\* the float nearest the exact value x
RoundDouble(x) ==
    LET keep == IF x.int > 0 THEN Precision - BitLen(x.int)
                ELSE LeadingZeros(x.frac) + Precision
        n    == Len(x.frac)
    IN  IF n <= keep THEN [int |-> x.int, frac |-> StripZeros(x.frac)]
        ELSE LET kept   == [int |-> x.int, frac |-> SubSeq(x.frac, 1, keep)]
                 guard  == x.frac[keep + 1]
                 sticky == \E i \in (keep + 2)..n : x.frac[i] = 1
                 odd    == IF keep = 0 THEN x.int % 2 = 1 ELSE x.frac[keep] = 1
                 r      == IF guard = 1 /\ (sticky \/ odd) THEN AddUlp(kept) ELSE kept
             IN  [int |-> r.int, frac |-> StripZeros(r.frac)]

\* eight bits at a time
ByteBits(v) == [i \in 1..8 |-> (v \div 2^(8 - i)) % 2]

ByteValue(bits) ==
    128 * bits[1] + 64 * bits[2] + 32 * bits[3] + 16 * bits[4]
        + 8 * bits[5] + 4 * bits[6] + 2 * bits[7] + bits[8]

PadToBytes(bits) ==
    bits \o [i \in 1..((8 - (Len(bits) % 8)) % 8) |-> 0]

\* the exact product m * 0.bits (Len(bits) a multiple of 8), carry entering
\* from the right
RECURSIVE MulAcc(_, _, _, _)
MulAcc(bits, m, carry, acc) ==
    IF bits = <<>> THEN [int |-> carry, frac |-> acc]
    ELSE LET n == Len(bits)
             t == m * ByteValue(SubSeq(bits, n - 7, n)) + carry
         IN  MulAcc(SubSeq(bits, 1, n - 8), m, t \div 256, ByteBits(t % 256) \o acc)

MulFrac(bits, m) == MulAcc(PadToBytes(bits), m, 0, <<>>)

\* float * int, rounded as the float multiplication rounds
FloatMul(x, m) ==
    LET p == MulFrac(x.frac, m) IN
    RoundDouble([int |-> x.int * m + p.int, frac |-> p.frac])

\* the first 8k bits of the binary expansion of r/d (r < d), then a last bit
\* that says whether anything non-zero follows
RECURSIVE DivBits(_, _, _)
DivBits(r, d, k) ==
    IF k = 0 THEN IF r # 0 THEN <<1>> ELSE <<>>
    ELSE ByteBits((256 * r) \div d) \o DivBits((256 * r) % d, d, k - 1)

RECURSIVE DivLeadingZeros(_, _)
DivLeadingZeros(r, d) ==
    IF r = 0 \/ 2 * r >= d THEN 0 ELSE 1 + DivLeadingZeros(2 * r, d)

\* the float that the decimal n/d denotes (the float nearest to it)
DecimalToDouble(n, d) ==
    LET i    == n \div d
        r    == n % d
        keep == IF i > 0 THEN Precision - BitLen(i)
                ELSE DivLeadingZeros(r, d) + Precision
    IN  RoundDouble([int |-> i, frac |-> DivBits(r, d, (keep + 8) \div 8)])

(***************************************************************************)
(* format_timestamp                                                        *)
(***************************************************************************)
DigitChars == <<"0", "1", "2", "3", "4", "5", "6", "7", "8", "9">>

RECURSIVE Digits(_)
Digits(n) ==
    IF n < 10 THEN <<DigitChars[n + 1]>>
    ELSE Append(Digits(n \div 10), DigitChars[(n % 10) + 1])

RECURSIVE Pad(_, _)
\* f"{n:0w}": the decimal digits of n, zero-filled on the left to w characters
Pad(n, w) ==
    LET d == Digits(n) IN
    IF Len(d) >= w THEN d ELSE <<"0">> \o Pad(n, w - 1)

format_timestamp(s) ==
    LET hours        == s.int \div 3600
        minutes      == (s.int % 3600) \div 60
        secs         == s.int % 60
        milliseconds == FloatMul([int |-> 0, frac |-> s.frac], 1000).int
    IN  Pad(hours, 2) \o <<":">> \o Pad(minutes, 2) \o <<":">> \o Pad(secs, 2)
            \o <<",">> \o Pad(milliseconds, 3)

(***************************************************************************)
(* Strings                                                                 *)
(***************************************************************************)
NL == "\n"

Chars == {"a", " ", NL}

IsSpace(c) == c \in {" ", NL}

\* str.strip()
Strip(s) ==
    LET solid == {i \in 1..Len(s) : ~IsSpace(s[i])} IN
    IF solid = {} THEN <<>> ELSE SubSeq(s, Min(solid), Max(solid))

\* str.replace(old, new) for one-character old and new
Replace(s, old, new) == [i \in 1..Len(s) |-> IF s[i] = old THEN new ELSE s[i]]

LowerChar(c) ==
    CASE c = "A" -> "a" [] c = "M" -> "m" [] c = "P" -> "p"
      [] c = "W" -> "w" [] c = "V" -> "v" [] OTHER -> c

\* str.lower()
Lower(s) == [i \in 1..Len(s) |-> LowerChar(s[i])]

\* str.endswith(suffix)
EndsWith(s, suffix) ==
    /\ Len(s) >= Len(suffix)
    /\ SubSeq(s, Len(s) - Len(suffix) + 1, Len(s)) = suffix

\* sep.join(lines)
RECURSIVE Join(_, _)
Join(lines, sep) ==
    IF lines = <<>> THEN <<>>
    ELSE IF Len(lines) = 1 THEN lines[1]
    ELSE lines[1] \o sep \o Join(Tail(lines), sep)

\* os.path.splitext of a file name (no directory part): the extension starts
\* at the last dot, unless only dots precede that dot
splitext(name) ==
    LET dots == {i \in 1..Len(name) : name[i] = "."} IN
    IF dots = {} \/ \A i \in 1..(Max(dots) - 1) : name[i] = "."
    THEN <<name, <<>>>>
    ELSE <<SubSeq(name, 1, Max(dots) - 1), SubSeq(name, Max(dots), Len(name))>>

(***************************************************************************)
(* save_srt_file                                                           *)
(***************************************************************************)
\* dict.get(key, default)
Get(d, key, default) == IF key \in DOMAIN d THEN d[key] ELSE default

Arrow == <<" ", "-", "-", ">", " ">>

\* the list srt_lines after the loop over the segments from index idx on
RECURSIVE SrtLines(_, _)
SrtLines(segments, idx) ==
    IF idx > Len(segments) THEN <<>>
    ELSE LET segment    == segments[idx]
             start_time == format_timestamp(Get(segment, "start", [int |-> 0, frac |-> <<>>]))
             end_time   == format_timestamp(Get(segment, "end", [int |-> 0, frac |-> <<>>]))
             text       == Strip(Get(segment, "text", <<>>))
         IN  <<Digits(idx), start_time \o Arrow \o end_time, text \o <<NL>>>>
                 \o SrtLines(segments, idx + 1)

\* what save_srt_file writes to the file
SrtText(segments) == Join(SrtLines(segments, 1), <<NL>>)

(***************************************************************************)
(* The file system and the external model                                  *)
(***************************************************************************)
input_folder == "audio"

output_folder == "result"

\* directories of the input tree, as os.path.relpath(root, input_folder)
Rels == {".", "sub"}

FileNames == {<<"a", ".", "m", "p", "3">>, <<"a", ".", "M", "P", "3">>,
              <<"a", ".", "w", "a", "v">>}

\* a path is <<folder, relative directory, file name>>
InputPaths == {<<input_folder, rel, name>> : rel \in Rels, name \in FileNames}

Audio(path) == [kind |-> "audio", src |-> path, data |-> <<>>, whole |-> TRUE]

\* a file the job of input file src wrote: whole, or cut short by a failed write
Written(src, data, whole) == [kind |-> "output", src |-> src, data |-> data, whole |-> whole]

Put(files, path, content) ==
    [p \in DOMAIN files \cup {path} |-> IF p = path THEN content ELSE files[p]]

Drop(files, path) == [p \in DOMAIN files \ {path} |-> files[p]]

Seconds(millis) == DecimalToDouble(millis, 1000)

\* what model.transcribe may return: a text, and a segment list that may be
\* missing or empty
ModelSegments == <<[start |-> Seconds(0), end |-> Seconds(1500), text |-> <<" ", "a">>]>>

ModelText == <<" ", "a", NL, "a", NL>>

ModelResults == {[text |-> ModelText],
                 [text |-> ModelText, segments |-> <<>>],
                 [text |-> ModelText, segments |-> ModelSegments]}

NoResult == [text |-> <<>>]

\* model.transcribe raised
Raised == [raised |-> TRUE]

NoFile == <<>>

(***************************************************************************)
(* batch_transcribe and transcribe_audio_to_text                           *)
(***************************************************************************)
\* variant: the filter without lower()
MatchesExact(name) == EndsWith(name, <<".", "m", "p", "3">>)

\* file.lower().endswith('.mp3')
Matches(name) == EndsWith(Lower(name), <<".", "m", "p", "3">>)

\* variant: every output goes to the output folder itself
OutputFileFlat(path) ==
    <<output_folder, ".", splitext(path[3])[1] \o <<".", "t", "x", "t">>>>

\* output_file of the input file at path
OutputFile(path) ==
    LET relative_path == path[2]
        base_name     == splitext(path[3])[1]
    IN  <<output_folder, relative_path, base_name \o <<".", "t", "x", "t">>>>

\* srt_output_file = os.path.splitext(output_file)[0] + ".srt"
SrtOutputFile(output_file) ==
    <<output_file[1], output_file[2], splitext(output_file[3])[1] \o <<".", "s", "r", "t">>>>

\* transcription = result.get('text', '').replace('\n', ' ').strip()
Transcription(res) == Strip(Replace(Get(res, "text", <<>>), NL, " "))

Say(kind, path) == reports' = Append(reports, <<kind, path>>)

Say2(kind1, kind2, path) == reports' = reports \o <<<<kind1, path>>, <<kind2, path>>>>

\* variant: nothing catches what the job raised
JobFailsAborts(kind) ==
    /\ Say(kind, cur)
    /\ pc' = "aborted"
    /\ cur' = NoFile
    /\ result' = NoResult

\* the job raised: batch_transcribe catches it, reports it and goes on
JobFails(kind) ==
    /\ Say2(kind, "job_failed", cur)
    /\ pc' = "walk"
    /\ cur' = NoFile
    /\ result' = NoResult

Idle == UNCHANGED <<seconds, stamp>>

\* torch.cuda.is_available(), whisper.load_model
LoadModel ==
    /\ pc = "start"
    /\ reports' = reports \o <<<<"device", NoFile>>, <<"loading", NoFile>>, <<"loaded", NoFile>>>>
    /\ pc' = "walk"
    /\ UNCHANGED <<script, fs, dirs, tree, pending, cur, result, calls>>
    /\ Idle

\* whisper.load_model raises: nothing catches it
LoadModelFails ==
    /\ pc = "start"
    /\ reports' = reports \o <<<<"device", NoFile>>, <<"loading", NoFile>>>>
    /\ pc' = "aborted"
    /\ UNCHANGED <<script, fs, dirs, tree, pending, cur, result, calls>>
    /\ Idle

\* os.walk is top-down: the files of the input folder itself come before
\* those of its subdirectories, in the order the directory listing gives
WalkNext(path) ==
    /\ path \in pending
    /\ path[2] = "." \/ \A q \in pending : q[2] # "."

\* a file that does not pass the extension filter
SkipFile ==
    /\ pc = "walk"
    /\ \E path \in pending :
        /\ WalkNext(path)
        /\ ~Matches(path[3])
        /\ pending' = pending \ {path}
    /\ UNCHANGED <<script, fs, dirs, tree, pc, cur, result, calls, reports>>
    /\ Idle

\* a file that passes the filter: transcribe_audio_to_text is called on it
StartJob ==
    /\ pc = "walk"
    /\ \E path \in pending :
        /\ WalkNext(path)
        /\ Matches(path[3])
        /\ pending' = pending \ {path}
        /\ cur' = path
    /\ pc' = "transcribe"
    /\ UNCHANGED <<script, fs, dirs, tree, result, calls, reports>>
    /\ Idle

Transcribe ==
    /\ pc = "transcribe"
    /\ \E res \in ModelResults :
        /\ result' = res
        /\ calls' = [calls EXCEPT ![cur] = Append(@, res)]
    /\ Say("transcript", cur)
    /\ pc' = "write_txt"
    /\ UNCHANGED <<script, fs, dirs, tree, pending, cur>>
    /\ Idle

\* variant: the loop is left (break) when the model raises
TranscribeFailsBreaks ==
    /\ pc = "transcribe"
    /\ calls' = [calls EXCEPT ![cur] = Append(@, Raised)]
    /\ Say2("transcribe_error", "job_failed", cur)
    /\ pc' = "walk"
    /\ cur' = NoFile
    /\ result' = NoResult
    /\ pending' = {}
    /\ UNCHANGED <<script, fs, dirs, tree>>
    /\ UNCHANGED <<seconds, stamp>>

TranscribeFails ==
    /\ pc = "transcribe"
    /\ calls' = [calls EXCEPT ![cur] = Append(@, Raised)]
    /\ JobFails("transcribe_error")
    /\ UNCHANGED <<script, fs, dirs, tree, pending>>
    /\ Idle

\* os.makedirs, open, write, close
WriteText ==
    /\ pc = "write_txt"
    /\ dirs' = dirs \cup {OutputFile(cur)[2]}
    /\ fs' = Put(fs, OutputFile(cur), Written(cur, Transcription(result) \o <<NL>>, TRUE))
    /\ Say("txt_saved", cur)
    /\ pc' = IF script = "txt_srt" THEN "save_srt" ELSE "remove"
    /\ UNCHANGED <<script, tree, pending, cur, result, calls>>
    /\ Idle

\* a step of writing a file at path raises OSError: os.makedirs (nothing is
\* made), open (the directory is made) or the write (the file is cut short)
WriteFails(path, data) ==
    \/ UNCHANGED <<fs, dirs>>
    \/ /\ dirs' = dirs \cup {path[2]}
       /\ UNCHANGED fs
    \/ /\ dirs' = dirs \cup {path[2]}
       /\ fs' = Put(fs, path, Written(cur, data, FALSE))

WriteTextFails ==
    /\ pc = "write_txt"
    /\ WriteFails(OutputFile(cur), Transcription(result) \o <<NL>>)
    /\ JobFails("error")
    /\ UNCHANGED <<script, tree, pending, calls>>
    /\ Idle

\* variant: save_srt_file raises when there are no segments
SaveSrtNoSegmentsRaises ==
    /\ pc = "save_srt"
    /\ Get(result, "segments", <<>>) = <<>>
    /\ Say2("no_segments", "job_failed", cur)
    /\ pc' = "walk"
    /\ cur' = NoFile
    /\ result' = NoResult
    /\ UNCHANGED <<script, fs, dirs, tree, pending, calls>>
    /\ UNCHANGED <<seconds, stamp>>

\* save_srt_file without segments: a message, no file
SaveSrtNoSegments ==
    /\ pc = "save_srt"
    /\ Get(result, "segments", <<>>) = <<>>
    /\ Say("no_segments", cur)
    /\ pc' = "remove"
    /\ UNCHANGED <<script, fs, dirs, tree, pending, cur, result, calls>>
    /\ Idle

SaveSrt ==
    /\ pc = "save_srt"
    /\ Get(result, "segments", <<>>) # <<>>
    /\ LET srt_output_file == SrtOutputFile(OutputFile(cur)) IN
        /\ dirs' = dirs \cup {srt_output_file[2]}
        /\ fs' = Put(fs, srt_output_file,
                     Written(cur, SrtText(Get(result, "segments", <<>>)), TRUE))
    /\ Say("srt_saved", cur)
    /\ pc' = "remove"
    /\ UNCHANGED <<script, tree, pending, cur, result, calls>>
    /\ Idle

\* variant: the input file is removed before the subtitle file is written
SaveSrtFailsInputGone ==
    /\ pc = "save_srt"
    /\ Get(result, "segments", <<>>) # <<>>
    /\ fs' = Drop(fs, cur)
    /\ Say2("error", "job_failed", cur)
    /\ pc' = "walk"
    /\ cur' = NoFile
    /\ result' = NoResult
    /\ UNCHANGED <<script, dirs, tree, pending, calls>>
    /\ UNCHANGED <<seconds, stamp>>

SaveSrtFails ==
    /\ pc = "save_srt"
    /\ Get(result, "segments", <<>>) # <<>>
    /\ WriteFails(SrtOutputFile(OutputFile(cur)), SrtText(Get(result, "segments", <<>>)))
    /\ JobFails("error")
    /\ UNCHANGED <<script, tree, pending, calls>>
    /\ Idle

\* os.remove(input_file)
Remove ==
    /\ pc = "remove"
    /\ fs' = Drop(fs, cur)
    /\ Say("removed", cur)
    /\ pc' = "walk"
    /\ cur' = NoFile
    /\ result' = NoResult
    /\ UNCHANGED <<script, dirs, tree, pending, calls>>
    /\ Idle

\* variant: what os.remove raises leaves the job
RemoveFailsRaises ==
    /\ pc = "remove"
    /\ Say2("remove_failed", "job_failed", cur)
    /\ pc' = "walk"
    /\ cur' = NoFile
    /\ result' = NoResult
    /\ UNCHANGED <<script, fs, dirs, tree, pending, calls>>
    /\ UNCHANGED <<seconds, stamp>>

\* os.remove raises: reported, and the job returns normally
RemoveFails ==
    /\ pc = "remove"
    /\ Say("remove_failed", cur)
    /\ pc' = "walk"
    /\ cur' = NoFile
    /\ result' = NoResult
    /\ UNCHANGED <<script, fs, dirs, tree, pending, calls>>
    /\ Idle

\* the walk is over
Finish ==
    /\ pc = "walk"
    /\ pending = {}
    /\ Say("done", NoFile)
    /\ pc' = "done"
    /\ UNCHANGED <<script, fs, dirs, tree, pending, cur, result, calls>>
    /\ Idle

Trees == {t \in SUBSET InputPaths : Cardinality(t) <= MaxFiles}

Init ==
    /\ script \in {"txt_srt", "txt"}
    /\ tree \in Trees
    /\ fs = [p \in tree |-> Audio(p)]
    /\ dirs = {}
    /\ pending = tree
    /\ pc = "start"
    /\ cur = NoFile
    /\ result = NoResult
    /\ calls = [p \in tree |-> <<>>]
    /\ reports = <<>>
    /\ seconds = [int |-> 0, frac |-> <<>>]
    /\ stamp = <<>>

Next ==
    \/ LoadModel
    \/ LoadModelFails
    \/ SkipFile
    \/ StartJob
    \/ Transcribe
    \/ TranscribeFails
    \/ WriteTextFails
    \/ WriteText
    \/ SaveSrtNoSegments
    \/ SaveSrtFails
    \/ SaveSrt
    \/ Remove
    \/ RemoveFails
    \/ Finish

Spec == Init /\ [][Next]_vars

(***************************************************************************)
(* format_timestamp alone, on the floats that the decimals s.mmm denote    *)
(* and on the float of the documented example, 125.4567                    *)
(***************************************************************************)
WholeSeconds == {0, 1, 59, 60, 125, 3599}

TimestampInputs(maxMillis) ==
    {Seconds(1000 * s + m) : s \in WholeSeconds, m \in 0..maxMillis}
        \cup {DecimalToDouble(1254567, 10000)}

NoJob ==
    /\ script = "txt_srt"
    /\ tree = {}
    /\ fs = <<>>
    /\ dirs = {}
    /\ pending = {}
    /\ cur = NoFile
    /\ result = NoResult
    /\ calls = <<>>
    /\ reports = <<>>

TimestampInit ==
    /\ NoJob
    /\ pc = "format_timestamp"
    /\ seconds \in TimestampInputs(MaxMillis)
    /\ stamp = <<>>

FormatTimestamp ==
    /\ pc = "format_timestamp"
    /\ stamp' = format_timestamp(seconds)
    /\ pc' = "returned"
    /\ UNCHANGED <<script, fs, dirs, tree, pending, cur, result, calls, reports, seconds>>

TimestampSpec == TimestampInit /\ [][FormatTimestamp]_vars

(***************************************************************************)
(* save_srt_file alone, called on a result with up to MaxSegs segments     *)
(***************************************************************************)
Texts(maxChars) == UNION {[1..n -> Chars] : n \in 0..maxChars}

\* segment k runs from 1.5 (k - 1) to 1.5 k seconds
SegmentLists(maxSegs, maxChars) ==
    LET at == [k \in 0..maxSegs |-> Seconds(1500 * k)] IN
    UNION {{[k \in 1..n |-> [start |-> at[k - 1], end |-> at[k], text |-> texts[k]]]
                : texts \in [1..n -> Texts(maxChars)]}
           : n \in 0..maxSegs}

SrtJob == <<input_folder, ".", <<"a", ".", "m", "p", "3">>>>

SrtInit ==
    /\ script = "txt_srt"
    /\ tree = {SrtJob}
    /\ fs = [p \in {SrtJob} |-> Audio(p)]
    /\ dirs = {}
    /\ pending = {}
    /\ pc = "save_srt"
    /\ cur = SrtJob
    /\ result \in {[text |-> <<>>, segments |-> segs] : segs \in SegmentLists(MaxSegs, MaxChars)}
                    \cup {[text |-> <<>>]}
    /\ calls = [p \in {SrtJob} |-> <<result>>]
    /\ reports = <<>>
    /\ seconds = [int |-> 0, frac |-> <<>>]
    /\ stamp = <<>>

SrtNext ==
    \/ SaveSrtNoSegments
    \/ SaveSrt
    \/ SaveSrtFails

SrtSpec == SrtInit /\ [][SrtNext]_vars

(***************************************************************************)
(* Vocabulary of the properties                                            *)
(***************************************************************************)
Said(kind, path) == \E i \in 1..Len(reports) : reports[i] = <<kind, path>>

LastSaid(kind, path) == reports # <<>> /\ reports[Len(reports)] = <<kind, path>>

\* the place of a message in the output, 0 when it was never printed
SaidAt(kind, path) ==
    IF Said(kind, path) THEN Min({i \in 1..Len(reports) : reports[i] = <<kind, path>>}) ELSE 0

\* a name ending in .mp3 in any letter case
IsMp3Name(name) ==
    \E m \in {"m", "M"}, l \in {"p", "P"} : EndsWith(name, <<".", m, l, "3">>)

Mp3Files == {p \in tree : IsMp3Name(p[3])}

\* <output_root>/<rel>/<base>.txt and .srt of <input_root>/<rel>/<base>.mp3
BaseOf(p) == SubSeq(p[3], 1, Len(p[3]) - 4)

TxtOf(p) == <<"result", p[2], BaseOf(p) \o <<".", "t", "x", "t">>>>

SrtOf(p) == <<"result", p[2], BaseOf(p) \o <<".", "s", "r", "t">>>>

Called(p) == Len(calls[p])

ModelRaised(p) == \E i \in 1..Len(calls[p]) : calls[p][i] = Raised

\* the model returned a result with a non-empty segment list for p
GotSegments(p) == \E i \in 1..Len(calls[p]) : Get(calls[p][i], "segments", <<>>) # <<>>

GotNoSegments(p) ==
    /\ calls[p] # <<>>
    /\ \A i \in 1..Len(calls[p]) :
        calls[p][i] # Raised /\ Get(calls[p][i], "segments", <<>>) = <<>>

\* the files in the file system that the job of p wrote
OwnOutputs(p) == {q \in DOMAIN fs : fs[q].kind = "output" /\ fs[q].src = p}

Untouched(p) == p \in DOMAIN fs /\ fs[p] = Audio(p)

\* the job of p is over
Finished(p) == Called(p) > 0 /\ cur # p

Failed(p) == Said("job_failed", p)

Succeeded(p) == Finished(p) /\ ~Failed(p)

AllProcessedOnce == \A p \in Mp3Files : Called(p) = 1

RunOver == pc \in {"done", "aborted"}

WholeAt(path, p) == path \in DOMAIN fs /\ fs[path].src = p /\ fs[path].whole

(***************************************************************************)
(* C1                                                                      *)
(***************************************************************************)
\* C1: a file on which model.transcribe raised is still present and
\* unchanged, its job wrote no text or subtitle file, and the run ends only
\* after every matching file has been processed.
C1_ModelFailure ==
    /\ \A p \in tree : ModelRaised(p) =>
        /\ Untouched(p)
        /\ OwnOutputs(p) = {}
        /\ ~Said("txt_saved", p) /\ ~Said("srt_saved", p)
    /\ (RunOver /\ \E p \in tree : ModelRaised(p)) => (pc = "done" /\ AllProcessedOnce)

\* a finished run in which one file failed in the model and a later file
\* was transcribed and removed
C1_Witness ==
    /\ pc = "done"
    /\ \E p, q \in tree :
        /\ ModelRaised(p)
        /\ Said("removed", q)
        /\ SaidAt("transcribe_error", p) < SaidAt("removed", q)

(***************************************************************************)
(* C2                                                                      *)
(***************************************************************************)
\* C2 as stated: after the run, every matching file whose job succeeded has
\* its .txt in the mirrored output directory (and its .srt when the model
\* produced segments) and the input file no longer exists.
C2_Original ==
    pc = "done" => \A p \in Mp3Files : Succeeded(p) =>
        /\ TxtOf(p) \in DOMAIN fs
        /\ (script = "txt_srt" /\ GotSegments(p)) => SrtOf(p) \in DOMAIN fs
        /\ p \notin DOMAIN fs

\* C2 as amended: the same, and the input file no longer exists unless
\* os.remove failed for it: then that failure was reported and the input
\* file is still there.
C2_Amended ==
    pc = "done" => \A p \in Mp3Files : Succeeded(p) =>
        /\ TxtOf(p) \in DOMAIN fs
        /\ (script = "txt_srt" /\ GotSegments(p)) => SrtOf(p) \in DOMAIN fs
        /\ \/ p \notin DOMAIN fs /\ Said("removed", p) /\ ~Said("remove_failed", p)
           \/ Untouched(p) /\ Said("remove_failed", p) /\ ~Said("removed", p)

\* audio/sub/a.mp3 was transcribed with segments and removed
C2_Witness ==
    /\ pc = "done"
    /\ script = "txt_srt"
    /\ \E p \in tree :
        /\ p = <<"audio", "sub", <<"a", ".", "m", "p", "3">>>>
        /\ Succeeded(p) /\ GotSegments(p)
        /\ p \notin DOMAIN fs
        /\ WholeAt(<<"result", "sub", <<"a", ".", "t", "x", "t">>>>, p)
        /\ WholeAt(<<"result", "sub", <<"a", ".", "s", "r", "t">>>>, p)

(***************************************************************************)
(* C3                                                                      *)
(***************************************************************************)
\* C3: a file whose name does not end in .mp3 (in any letter case) is never
\* given to the model and stays in place unchanged; a file whose name does
\* is given to the model by the time the run is over.
C3_Filter ==
    \A p \in tree :
        /\ ~IsMp3Name(p[3]) => (Called(p) = 0 /\ cur # p /\ Untouched(p))
        /\ (IsMp3Name(p[3]) /\ pc = "done") => Called(p) = 1

\* a finished run over a directory holding a.wav and a.MP3, where a.MP3 was
\* transcribed and removed and another file failed
C3_Witness ==
    /\ pc = "done"
    /\ \E rel \in Rels :
        /\ <<"audio", rel, <<"a", ".", "w", "a", "v">>>> \in tree
        /\ <<"audio", rel, <<"a", ".", "M", "P", "3">>>> \in tree
        /\ Said("removed", <<"audio", rel, <<"a", ".", "M", "P", "3">>>>)
    /\ \E q \in tree : Failed(q)

(***************************************************************************)
(* C4                                                                      *)
(***************************************************************************)
\* C4: no file is given to the model twice; a run that is not over can
\* always take a step; only a failure to load the model ends the run early;
\* and a run that is over has given every matching file to the model once
\* and reported completion last.
C4_NoAbort ==
    /\ \A p \in tree : Called(p) <= 1
    /\ ~RunOver => ENABLED Next
    /\ pc = "aborted" => \A p \in tree : Called(p) = 0
    /\ pc = "done" => (AllProcessedOnce /\ LastSaid("done", NoFile))

\* a finished run in which one job failed in the model, one while writing
\* and one could not remove its input
C4_Witness ==
    /\ pc = "done"
    /\ \E p, q, r \in tree :
        /\ Said("transcribe_error", p)
        /\ Said("error", q)
        /\ Said("remove_failed", r)
        /\ SaidAt("error", q) < SaidAt("remove_failed", r)

(***************************************************************************)
(* C5                                                                      *)
(***************************************************************************)
\* C5: when os.remove fails in the job of p, the job is not reported as
\* failed, the input file stays, the text output (and the subtitle output,
\* when there were segments) is in place as the job wrote it when the job
\* returns, the run goes on with the walk and the next file, and it ends
\* only after every matching file has been processed.
C5_RemoveFailure ==
    \A p \in tree : Said("remove_failed", p) =>
        /\ ~Failed(p)
        /\ Untouched(p)
        /\ TxtOf(p) \in DOMAIN fs
        /\ LastSaid("remove_failed", p) =>
            /\ pc \in {"walk", "transcribe"} /\ cur # p
            /\ WholeAt(TxtOf(p), p)
            /\ (script = "txt_srt" /\ GotSegments(p)) => WholeAt(SrtOf(p), p)
        /\ RunOver => (pc = "done" /\ AllProcessedOnce)

\* a finished run in which a job with segments could not remove its input
\* and a later file was still processed
C5_Witness ==
    /\ pc = "done"
    /\ script = "txt_srt"
    /\ \E p, q \in tree :
        /\ Said("remove_failed", p) /\ GotSegments(p)
        /\ Said("transcript", q)
        /\ SaidAt("remove_failed", p) < SaidAt("transcript", q)

(***************************************************************************)
(* C6                                                                      *)
(***************************************************************************)
\* C6: two distinct matching files that are both processed successfully get
\* distinct text output paths, and after the run the output tree holds as
\* many text files as there were successful jobs.
C6_DistinctOutputs ==
    /\ \A p, q \in Mp3Files :
        (p # q /\ Succeeded(p) /\ Succeeded(q)) => OutputFile(p) # OutputFile(q)
    /\ pc = "done" =>
        Cardinality({f \in DOMAIN fs : f[1] = "result" /\ EndsWith(f[3], <<".", "t", "x", "t">>)})
            >= Cardinality({p \in Mp3Files : Succeeded(p)})

(***************************************************************************)
(* C7                                                                      *)
(***************************************************************************)
IsDigit(c) == \E d \in 1..10 : DigitChars[d] = c

DigitValue(c) == (CHOOSE d \in 1..10 : DigitChars[d] = c) - 1

\* HH:MM:SS,mmm
IsStamp(t) ==
    /\ Len(t) = 12
    /\ t[3] = ":" /\ t[6] = ":" /\ t[9] = ","
    /\ \A i \in {1, 2, 4, 5, 7, 8, 10, 11, 12} : IsDigit(t[i])

\* the hour, minute, second and millisecond fields of a stamp, parsed
StampFields(t) ==
    <<10 * DigitValue(t[1]) + DigitValue(t[2]),
      10 * DigitValue(t[4]) + DigitValue(t[5]),
      10 * DigitValue(t[7]) + DigitValue(t[8]),
      100 * DigitValue(t[10]) + 10 * DigitValue(t[11]) + DigitValue(t[12])>>

\* the whole hours, minutes, seconds and milliseconds of the float s, the
\* milliseconds being floor(1000 * fraction of s), computed exactly
Components(s) ==
    <<s.int \div 3600, (s.int % 3600) \div 60, s.int % 60, MulFrac(s.frac, 1000).int>>

\* C7: for s in [0, 3600), format_timestamp(s) has the form HH:MM:SS,mmm and
\* parses back to the hour, minute, second and truncated millisecond
\* components of s.
C7_RoundTrip ==
    (pc = "returned" /\ seconds.int < 3600) =>
        (IsStamp(stamp) /\ StampFields(stamp) = Components(seconds))

(***************************************************************************)
(* C8                                                                      *)
(***************************************************************************)
\* str.split("\n")
RECURSIVE SplitLines(_)
SplitLines(s) ==
    LET nls == {i \in 1..Len(s) : s[i] = NL} IN
    IF nls = {} THEN <<s>>
    ELSE <<SubSeq(s, 1, Min(nls) - 1)>> \o SplitLines(SubSeq(s, Min(nls) + 1, Len(s)))

\* the blocks of a subtitle file read from line k on: an index line, a timing
\* line, the text up to the next empty line, and that empty line
RECURSIVE ReadBlocks(_, _)
ReadBlocks(lines, k) ==
    IF k > Len(lines) THEN <<>>
    ELSE LET ends == {j \in (k + 3)..Len(lines) : lines[j] = <<>>}
             stop == IF ends = {} THEN Len(lines) + 1 ELSE Min(ends)
         IN  <<[index  |-> lines[k],
                timing |-> IF k + 1 <= Len(lines) THEN lines[k + 1] ELSE <<>>,
                text   |-> Join(SubSeq(lines, k + 2, stop - 1), <<NL>>)]>>
                 \o ReadBlocks(lines, stop + 1)

SrtWritten == pc = "remove" /\ Said("srt_saved", cur)

\* C8: the subtitle file written for a non-empty segment list reads back as
\* one block per segment, in order, block i carrying the index i, the
\* formatted start and end of segment i and its trimmed text, each block
\* followed by one empty line.
C8_Blocks ==
    SrtWritten =>
        LET segments == result.segments
            blocks   == ReadBlocks(SplitLines(fs[SrtOutputFile(OutputFile(cur))].data), 1)
        IN  /\ Len(blocks) = Len(segments)
            /\ \A i \in 1..Len(segments) : i <= Len(blocks) =>
                /\ blocks[i].index = Digits(i)
                /\ blocks[i].timing = format_timestamp(segments[i].start) \o Arrow
                                        \o format_timestamp(segments[i].end)
                /\ blocks[i].text = Strip(segments[i].text)

(***************************************************************************)
(* C9                                                                      *)
(***************************************************************************)
\* the job of p got a result without segments and has called save_srt_file
PastEmptySrt(p) ==
    /\ script = "txt_srt"
    /\ GotNoSegments(p)
    /\ Said("txt_saved", p)
    /\ ~(cur = p /\ pc = "save_srt")

\* C9 as stated: when the result has no segments (missing or empty),
\* save_srt_file writes no subtitle file and raises nothing, it only reports
\* that there are no segments; the job is not a failed one, its text output
\* was written, and once it is over the input file is deleted.
C9_Original ==
    \A p \in tree : PastEmptySrt(p) =>
        /\ Said("no_segments", p)
        /\ ~Said("srt_saved", p)
        /\ \A f \in OwnOutputs(p) : f = TxtOf(p)
        /\ ~Failed(p)
        /\ Finished(p) => p \notin DOMAIN fs

\* C9 as amended: the same, and once the job is over the input file is
\* deleted unless os.remove failed for it: then that failure was reported
\* and the input file is still there.
C9_Amended ==
    \A p \in tree : PastEmptySrt(p) =>
        /\ Said("no_segments", p)
        /\ ~Said("srt_saved", p)
        /\ \A f \in OwnOutputs(p) : f = TxtOf(p)
        /\ ~Failed(p)
        /\ Finished(p) =>
            \/ p \notin DOMAIN fs /\ Said("removed", p)
            \/ Untouched(p) /\ Said("remove_failed", p)

\* a finished run with a job whose result had no "segments" key and a job
\* whose result had an empty segment list, both with their text output in
\* place and their input removed
C9_Witness ==
    /\ pc = "done"
    /\ \E p, q \in tree :
        /\ PastEmptySrt(p) /\ calls[p] = <<[text |-> ModelText]>>
        /\ PastEmptySrt(q) /\ calls[q] = <<[text |-> ModelText, segments |-> <<>>]>>
        /\ p \notin DOMAIN fs /\ q \notin DOMAIN fs
        /\ WholeAt(TxtOf(p), p) /\ WholeAt(TxtOf(q), q)

(***************************************************************************)
(* C10                                                                     *)
(***************************************************************************)
OutputsWritten(p) ==
    /\ Said("txt_saved", p)
    /\ (script = "txt_srt" /\ GotSegments(p)) => Said("srt_saved", p)

SucceededEnd(p) ==
    /\ OutputsWritten(p)
    /\ \/ p \notin DOMAIN fs /\ Said("removed", p)
       \/ Untouched(p) /\ Said("remove_failed", p)

FailedEnd(p) == Said("job_failed", p) /\ Untouched(p)

JobOutcomes ==
    \A p \in tree :
        /\ p \notin DOMAIN fs => (Called(p) = 1 /\ OutputsWritten(p))
        /\ Failed(p) => Untouched(p)
        /\ (IsMp3Name(p[3]) /\ Finished(p)) =>
            /\ SucceededEnd(p) \/ FailedEnd(p)
            /\ ~(SucceededEnd(p) /\ FailedEnd(p))

\* when a step deletes the input file p, the text output of its job is in
\* place and whole, and so is its subtitle output when the script writes
\* subtitles and the result had segments
DeletesAfterWriting ==
    \A p \in tree : (p \in DOMAIN fs /\ p \notin DOMAIN fs') =>
        /\ WholeAt(TxtOf(p), p)
        /\ (script = "txt_srt" /\ GotSegments(p)) => WholeAt(SrtOf(p), p)

\* C10: in every reachable state, an input file is gone only if its job's
\* text output (and, where subtitles are written and there were segments,
\* its subtitle output) was completely written before; a job that failed
\* has its input in place; and every job that is over ended either as
\* succeeded (outputs written, input deleted or the failed deletion
\* reported) or as failed (failure reported, input in place), never both.
C10_Lifecycle == []JobOutcomes /\ [][DeletesAfterWriting]_vars

\* a job is between writing its outputs and deleting its input while an
\* earlier job has deleted its input and another has failed
C10_Witness ==
    /\ pc = "remove"
    /\ script = "txt_srt"
    /\ GotSegments(cur)
    /\ \E p, q \in tree :
        /\ p \notin DOMAIN fs /\ GotSegments(p)
        /\ Failed(q) /\ Said("txt_saved", q)

====
